---- MODULE Spec2Model ----
(***************************************************************************)
(* PubMed Author Email Extractor (src/app.py): the extraction pipeline     *)
(* fetch_article_details, the deduplicator remove_duplicates and the main  *)
(* search flow, as a state machine.                                        *)
(*                                                                         *)
(* A Python str is a sequence of one-character strings, so that strip(),   *)
(* lower(), the `in` substring test and re.findall are computed character  *)
(* by character.  An optional text (an XML element that may be absent, or  *)
(* whose .text may be None) is None or Some(text).                         *)
(***************************************************************************)
EXTENDS Integers, Sequences, FiniteSets, TLC

VARIABLES
    pc,          \* position of the main search flow
    filters,     \* the filters dict built at app.py:275-283
    hashSeed,    \* iteration order of a Python set of str (fixed per process)
    searchOk,    \* whether the esearch request of search_pubmed succeeded
    pmids,       \* the identifier list returned by search_pubmed
    i,           \* loop variable of `for i in range(0, len(pmids), 20)`
    results,     \* the accumulator `results` of fetch_article_details
    responses,   \* what the record source answered to each batch, in order
    messages,    \* the st.success / st.warning / st.error calls, in order
    unique_results, \* remove_duplicates(results) in the main flow
    metrics,     \* the three st.metric values
    data,        \* remove_duplicates: the argument of the first application
    out1,        \* remove_duplicates(data)
    out2         \* remove_duplicates(remove_duplicates(data))

vars == <<pc, filters, hashSeed, searchOk, pmids, i, results, responses,
          messages, unique_results, metrics, data, out1, out2>>

-----------------------------------------------------------------------------
(* Python values *)

S(str) == [k \in 1..Len(str) |-> SubSeq(str, k, k)]

None == [some |-> FALSE]
Some(t) == [some |-> TRUE, text |-> t]

\* `x is not None and x.text` : the element exists and its text is non-empty
Truthy(o) == o.some /\ o.text # <<>>

UpperCase == S("ABCDEFGHIJKLMNOPQRSTUVWXYZ")
LowerCase == S("abcdefghijklmnopqrstuvwxyz")
Digits == {"0", "1", "2", "3", "4", "5", "6", "7", "8", "9"}
Letters == {UpperCase[k] : k \in 1..26} \cup {LowerCase[k] : k \in 1..26}
Whitespace == {" ", "\t", "\n", "\r"}

\* str.lower()
LowerChar(c) ==
    IF \E k \in 1..26 : UpperCase[k] = c
    THEN LowerCase[CHOOSE k \in 1..26 : UpperCase[k] = c]
    ELSE c
Lower(s) == [k \in 1..Len(s) |-> LowerChar(s[k])]

\* str.strip()
Strip(s) ==
    LET keep == {k \in 1..Len(s) : s[k] \notin Whitespace}
    IN  IF keep = {} THEN <<>>
        ELSE LET lo == CHOOSE k \in keep : \A m \in keep : k <= m
                 hi == CHOOSE k \in keep : \A m \in keep : k >= m
             IN  SubSeq(s, lo, hi)

\* `sub in s`
Contains(s, sub) ==
    \E k \in 0..(Len(s) - Len(sub)) : SubSeq(s, k + 1, k + Len(sub)) = sub

\* f"{a} {b}"
JoinSpace(a, b) == a \o <<" ">> \o b

-----------------------------------------------------------------------------
(* re.findall(r'\b[A-Za-z0-9._%+-]+@[A-Za-z0-9.-]+\.[A-Z|a-z]{2,}\b', text) *)

WordChars == Letters \cup Digits \cup {"_"}
LocalClass == Letters \cup Digits \cup {".", "_", "%", "+", "-"}
DomainClass == Letters \cup Digits \cup {".", "-"}
TldClass == Letters \cup {"|"}

IsWordAt(t, p) == p >= 1 /\ p <= Len(t) /\ t[p] \in WordChars

\* \b between position p-1 and position p
Boundary(t, p) == IsWordAt(t, p - 1) # IsWordAt(t, p)

\* length of the longest run of characters of class cls starting at p
RECURSIVE Run(_, _, _)
Run(t, p, cls) ==
    IF p <= Len(t) /\ t[p] \in cls THEN 1 + Run(t, p + 1, cls) ELSE 0

\* The end (exclusive) of the match starting at p, or 0 when none starts
\* there.  The local part is the whole run (the class excludes "@"); the
\* domain and the top-level segment are greedy and backtrack: longest
\* domain first, then longest top-level segment.
MatchEnd(t, p) ==
    LET l  == Run(t, p, LocalClass)
        at == p + l
        d0 == at + 1
        dr == Run(t, d0, DomainClass)
        cands == {c \in (1..dr) \X (2..Len(t)) :
                    /\ d0 + c[1] <= Len(t)
                    /\ t[d0 + c[1]] = "."
                    /\ c[2] <= Run(t, d0 + c[1] + 1, TldClass)
                    /\ Boundary(t, d0 + c[1] + 1 + c[2])}
        best == CHOOSE c \in cands :
                    \A o \in cands : o[1] < c[1] \/ (o[1] = c[1] /\ o[2] <= c[2])
    IN  IF /\ Boundary(t, p)
           /\ l >= 1
           /\ at <= Len(t)
           /\ t[at] = "@"
           /\ cands # {}
        THEN d0 + best[1] + 1 + best[2]
        ELSE 0

\* the non-overlapping matches, scanning left to right
RECURSIVE FindAllFrom(_, _)
FindAllFrom(t, p) ==
    IF p > Len(t) THEN <<>>
    ELSE LET e == MatchEnd(t, p)
         IN  IF e = 0 THEN FindAllFrom(t, p + 1)
             ELSE <<SubSeq(t, p, e - 1)>> \o FindAllFrom(t, e)

FindAll(t) == FindAllFrom(t, 1)

-----------------------------------------------------------------------------
(* Iteration over a Python set of str.  The order is fixed within one      *)
(* process and differs between processes (string hashing is seeded):       *)
(* hashSeed selects it.                                                    *)

Alphabet == UpperCase \o LowerCase \o S("0123456789._%+-@|")
CharRank(c) == CHOOSE k \in 1..Len(Alphabet) : Alphabet[k] = c

RECURSIVE LexLeq(_, _)
LexLeq(a, b) ==
    IF a = <<>> THEN TRUE
    ELSE IF b = <<>> THEN FALSE
    ELSE IF a[1] = b[1] THEN LexLeq(Tail(a), Tail(b))
    ELSE CharRank(a[1]) < CharRank(b[1])

RECURSIVE Iterate(_, _)
Iterate(set, seed) ==
    IF set = {} THEN <<>>
    ELSE LET first == CHOOSE e \in set :
                        \A o \in set : IF seed = 0 THEN LexLeq(e, o) ELSE LexLeq(o, e)
         IN  <<first>> \o Iterate(set \ {first}, seed)

Range(q) == {q[k] : k \in 1..Len(q)}

RECURSIVE Flatten(_)
Flatten(qq) == IF qq = <<>> THEN <<>> ELSE Head(qq) \o Flatten(Tail(qq))

-----------------------------------------------------------------------------
(* fetch_article_details: one article, one author *)

Sentinel == S("No email found")
UnknownAuthor == S("Unknown Author")
NoTitle == S("No title")

Row(t, a, e) == [title |-> t, author |-> a, email |-> e]

\* An article element: title and abstract are optional texts; each author
\* holds its LastName and ForeName (optional texts) and its Affiliation
\* elements in document order; otherAffs are the Affiliation elements of
\* the article outside its authors.

\* article.find('.//ArticleTitle') with the "No title" default
Title(article) ==
    IF Truthy(article.title) THEN article.title.text ELSE NoTitle

\* article.find('.//AbstractText') with the "" default
Abstract(article) ==
    IF Truthy(article.abstract) THEN article.abstract.text ELSE <<>>

is_keyword_related(title, abstract, keywords_list) ==
    IF keywords_list = <<>> THEN TRUE
    ELSE LET text_to_check == Lower(JoinSpace(title, abstract))
         IN  \E k \in 1..Len(keywords_list) :
                Contains(text_to_check, Lower(keywords_list[k]))

\* the record-level filters: keyword, then title
RecordPasses(article, f) ==
    /\ ~(f.enable_keyword_filter
         /\ ~is_keyword_related(Title(article), Abstract(article), f.keywords_list))
    /\ ~(f.title_filter # <<>>
         /\ ~Contains(Lower(Title(article)), Lower(f.title_filter)))

\* article.findall('.//Affiliation'): every Affiliation element below the
\* article, those of its authors included
Affiliations(article) ==
    Flatten([k \in 1..Len(article.authors) |-> article.authors[k].affs])
        \o article.otherAffs

\* the set article_emails
ArticleEmails(article) ==
    LET affiliations == Affiliations(article)
    IN  UNION {Range(FindAll(affiliations[k].text)) :
                 k \in {m \in 1..Len(affiliations) : Truthy(affiliations[m])}}

\* `last_name is None or not last_name.text or not last_name.text.strip()`
IsUnknown(author) ==
    ~Truthy(author.LastName) \/ Strip(author.LastName.text) = <<>>

\* the display name author_name
AuthorName(author) ==
    IF Truthy(author.LastName)
    THEN IF Truthy(author.ForeName) /\ Strip(author.ForeName.text) # <<>>
         THEN JoinSpace(Strip(author.ForeName.text), Strip(author.LastName.text))
         ELSE Strip(author.LastName.text)
    ELSE UnknownAuthor

\* author.find('.//Affiliation'): the author's first Affiliation element
AuthorAff(author) ==
    IF author.affs = <<>> THEN None ELSE author.affs[1]

\* the author's own emails
OwnEmails(author) ==
    IF Truthy(AuthorAff(author))
    THEN Range(FindAll(AuthorAff(author).text))
    ELSE {}

\* faulty variant: no fallback to the article-level emails
ResolvedEmailsOwnOnly(author, article_emails) == OwnEmails(author)

\* `if not author_emails and article_emails: author_emails = article_emails`
ResolvedEmails(author, article_emails) ==
    IF OwnEmails(author) = {} /\ article_emails # {}
    THEN article_emails
    ELSE OwnEmails(author)

\* faulty variant: the domain filter compared without .lower()
DomainPassesCaseSensitive(email, f) ==
    ~(f.email_domain_filter # <<>> /\ ~Contains(email, f.email_domain_filter))

\* the per-email domain filter
DomainPasses(email, f) ==
    ~(f.email_domain_filter # <<>>
      /\ ~Contains(Lower(email), Lower(f.email_domain_filter)))

\* the rows appended for the emails of one author, in iteration order
RECURSIVE EmailRows(_, _, _, _)
EmailRows(title, author_name, emails, f) ==
    IF emails = <<>> THEN <<>>
    ELSE (IF DomainPasses(Head(emails), f)
          THEN <<Row(title, author_name, Head(emails))>>
          ELSE <<>>)
         \o EmailRows(title, author_name, Tail(emails), f)

\* the body of `for author in authors`: the rows one author appends
AuthorRows(title, author, article_emails, f, seed) ==
    LET author_name   == AuthorName(author)
        author_emails == ResolvedEmails(author, article_emails)
    IN  IF f.only_known_authors /\ IsUnknown(author) THEN <<>>
        ELSE IF f.author_filter # <<>>
                /\ ~Contains(Lower(author_name), Lower(f.author_filter)) THEN <<>>
        ELSE IF f.only_with_emails /\ author_emails = {} THEN <<>>
        ELSE IF author_emails # {}
             THEN EmailRows(title, author_name, Iterate(author_emails, seed), f)
        ELSE IF ~f.only_with_emails
             THEN <<Row(title, author_name, Sentinel)>>
        ELSE <<>>

\* the body of `for article in root.findall('.//PubmedArticle')`
ArticleRows(article, f, seed) ==
    IF ~RecordPasses(article, f) THEN <<>>
    ELSE Flatten([k \in 1..Len(article.authors) |->
                    AuthorRows(Title(article), article.authors[k],
                               ArticleEmails(article), f, seed)])

\* the rows one parsed batch appends to results
BatchRows(articles, f, seed) ==
    Flatten([k \in 1..Len(articles) |-> ArticleRows(articles[k], f, seed)])

-----------------------------------------------------------------------------
(* remove_duplicates *)

\* faulty variant: the key taken without .strip().lower()
KeyAsIs(row) == <<row.title, row.author, row.email>>

\* `(row[x] or '').strip().lower()` for the three columns
Key(row) ==
    <<Lower(Strip(row.title)), Lower(Strip(row.author)), Lower(Strip(row.email))>>

RECURSIVE DedupLoop(_, _, _)
DedupLoop(rows, seen, unique_data) ==
    IF rows = <<>> THEN unique_data
    ELSE IF Key(Head(rows)) \notin seen
         THEN DedupLoop(Tail(rows), seen \cup {Key(Head(rows))},
                        Append(unique_data, Head(rows)))
         ELSE DedupLoop(Tail(rows), seen, unique_data)

\* faulty variant: keyed on the raw columns, appending the normalized row
RECURSIVE DedupLoopNormalizing(_, _, _)
DedupLoopNormalizing(rows, seen, unique_data) ==
    IF rows = <<>> THEN unique_data
    ELSE LET raw == <<Head(rows).title, Head(rows).author, Head(rows).email>>
             key == Key(Head(rows))
         IN  IF raw \notin seen
             THEN DedupLoopNormalizing(Tail(rows), seen \cup {raw},
                                       Append(unique_data, Row(key[1], key[2], key[3])))
             ELSE DedupLoopNormalizing(Tail(rows), seen, unique_data)

remove_duplicates_normalizing(rows) == DedupLoopNormalizing(rows, {}, <<>>)

remove_duplicates(rows) == DedupLoop(rows, {}, <<>>)

-----------------------------------------------------------------------------
(* The inputs: filter configurations, article records, rows *)

BatchSize == 20

\* articles in one efetch answer
MaxArticles == 1
\* rows in an argument of remove_duplicates
MaxRows == 3

\* the filters dict; keywords_list is [] when the keyword filter is off
FilterConfigs ==
    {[only_with_emails |-> owe, only_known_authors |-> oka,
      enable_keyword_filter |-> kw[1], keywords_list |-> kw[2],
      author_filter |-> af, title_filter |-> tf, email_domain_filter |-> df] :
        owe \in BOOLEAN, oka \in BOOLEAN,
        kw \in {<<FALSE, <<>>>>, <<TRUE, <<>>>>, <<TRUE, <<S("reward")>>>>},
        af \in {<<>>, S("DOE")}, tf \in {<<>>, S("FOOD")},
        df \in {<<>>, S("Uni.edu")}}

Author(last, fore, affs) == [LastName |-> last, ForeName |-> fore, affs |-> affs]
Article(title, abstract, authors, otherAffs) ==
    [title |-> title, abstract |-> abstract, authors |-> authors,
     otherAffs |-> otherAffs]

\* the records the source can deliver, by number
Articles ==
    << \* two authors without affiliation text and an author with a blank
       \* last name, beside one article-level email
       Article(Some(S("Food Lab")), Some(S("a reward")),
               <<Author(Some(S("Lee")), Some(S("Ann")), <<>>),
                 Author(Some(S("Doe")), Some(S(" Bob ")), <<None>>),
                 Author(Some(S("\t")), None, <<>>)>>,
               <<Some(S("Lab, lab@uni.edu"))>>),
       \* the same entry in another case, an author with two own emails,
       \* an author whose first affiliation has no email
       Article(Some(S(" food lab")), None,
               <<Author(Some(S("Lee ")), Some(S("Ann")), <<Some(S("LAB@UNI.EDU."))>>),
                 Author(Some(S("Doe")), None,
                        <<Some(S("c@uni.edu; c@g.com")), Some(S("r@x.org"))>>),
                 Author(Some(S("Poe")), Some(S("Di")),
                        <<Some(S("Y")), Some(S("di@y.org"))>>)>>, <<>>),
       \* no email anywhere; absent and blank names
       Article(None, Some(S("On food reward")),
               <<Author(Some(S("  ")), None, <<>>),
                 Author(None, Some(S("Al")), <<>>),
                 Author(Some(S(" ")), Some(S("Jo")), <<Some(S("Z"))>>),
                 Author(Some(S("Doe")), Some(S("  ")), <<>>)>>, <<>>) >>

ArticleIds == 1..Len(Articles)

RECURSIVE SeqsUpTo(_, _)
SeqsUpTo(set, n) ==
    IF n = 0 THEN {<<>>}
    ELSE LET shorter == SeqsUpTo(set, n - 1)
         IN  shorter \cup {Append(q, x) : q \in shorter, x \in set}

\* an answer that parses: the numbers of the records it holds
Payloads == SeqsUpTo(ArticleIds, MaxArticles)
\* an answer that does not parse: the well-formed records it holds beside
\* the malformed one (none for a transport failure)
BrokenPayloads == {<<>>} \cup {<<a>> : a \in ArticleIds}

Records(ids) == [k \in 1..Len(ids) |-> Articles[ids[k]]]

RowPool ==
    { Row(S("Title A"), S("John Smith"), S("j@x.com")),
      Row(S(" title a"), S("JOHN SMITH "), S("J@X.COM")),
      Row(S("Title A\t"), S("john smith"), S("\nj@x.com")),
      Row(S("Title A"), S("John Smith"), Sentinel),
      Row(S("Title  A"), S("John Smith"), S("j@x.com")),
      Row(S("Title B"), S("John Smith"), S("j@x.com")) }

RowSeqs == SeqsUpTo(RowPool, MaxRows)

-----------------------------------------------------------------------------
(* The main search flow (app.py:268-336) *)

Msg(level, text, n) == [level |-> level, text |-> text, n |-> n]

NoArticlesMsg == Msg("error", "No articles found for your search term.", 0)
NoResultsMsg ==
    Msg("warning", "No results found matching your criteria. Try adjusting your filters.", 0)
SearchErrorMsg == Msg("error", "Error searching PubMed", 0)
FoundMsg(n) == Msg("success", "Found articles", n)
BatchWarning(batch_num) == Msg("warning", "Error processing batch", batch_num)

NoMetrics == [shown |-> FALSE]

\* len(pmids) // 20 + (1 if len(pmids) % 20 else 0)
total_batches(ids) ==
    (Len(ids) \div BatchSize) + (IF Len(ids) % BatchSize # 0 THEN 1 ELSE 0)

Idle ==
    /\ searchOk = TRUE
    /\ pmids = <<>>
    /\ i = 0
    /\ results = <<>>
    /\ responses = <<>>
    /\ messages = <<>>
    /\ unique_results = <<>>
    /\ metrics = NoMetrics

\* the button is pressed with a key and a search term
Init ==
    /\ pc = "search"
    /\ filters \in FilterConfigs
    /\ hashSeed \in {0, 1}
    /\ Idle
    /\ data = <<>>
    /\ out1 = <<>>
    /\ out2 = <<>>

\* search_pubmed returns n identifiers; `if pmids:` decides what follows
SearchReturns(n) ==
    /\ pc = "search"
    /\ searchOk' = TRUE
    /\ pmids' = [k \in 1..n |-> k]
    /\ IF n # 0
       THEN /\ messages' = Append(messages, FoundMsg(n))
            /\ pc' = "fetch"
       ELSE /\ messages' = Append(messages, NoArticlesMsg)
            /\ pc' = "done"
    /\ UNCHANGED <<filters, hashSeed, i, results, responses, unique_results,
                   metrics, data, out1, out2>>

\* the request or the parse in search_pubmed raises: st.error, return []
SearchRaises ==
    /\ pc = "search"
    /\ searchOk' = FALSE
    /\ pmids' = <<>>
    /\ messages' = messages \o <<SearchErrorMsg, NoArticlesMsg>>
    /\ pc' = "done"
    /\ UNCHANGED <<filters, hashSeed, i, results, responses, unique_results,
                   metrics, data, out1, out2>>

\* one pass of the batch loop whose answer parses
FetchBatch(articles) ==
    /\ pc = "fetch"
    /\ i < Len(pmids)
    /\ results' = results \o BatchRows(Records(articles), filters, hashSeed)
    /\ responses' = Append(responses, [ok |-> TRUE, articles |-> articles])
    /\ i' = i + BatchSize
    /\ UNCHANGED <<pc, filters, hashSeed, searchOk, pmids, messages,
                   unique_results, metrics, data, out1, out2>>

\* faulty variant: the first failing batch ends the loop
FetchBatchRaisesBreaks(articles) ==
    /\ pc = "fetch"
    /\ i < Len(pmids)
    /\ messages' = Append(messages, BatchWarning(i \div BatchSize + 1))
    /\ responses' = Append(responses, [ok |-> FALSE, articles |-> articles])
    /\ i' = BatchSize * total_batches(pmids)
    /\ UNCHANGED <<pc, filters, hashSeed, searchOk, pmids, results,
                   unique_results, metrics, data, out1, out2>>

\* faulty variant: the failing batch is skipped without a warning
FetchBatchRaisesSilently(articles) ==
    /\ pc = "fetch"
    /\ i < Len(pmids)
    /\ responses' = Append(responses, [ok |-> FALSE, articles |-> articles])
    /\ i' = i + BatchSize
    /\ UNCHANGED <<pc, filters, hashSeed, searchOk, pmids, results, messages,
                   unique_results, metrics, data, out1, out2>>

\* one pass of the batch loop in which requests.get or ET.fromstring raises;
\* articles are the well-formed records of the answer that does not parse
FetchBatchRaises(articles) ==
    /\ pc = "fetch"
    /\ i < Len(pmids)
    /\ messages' = Append(messages, BatchWarning(i \div BatchSize + 1))
    /\ responses' = Append(responses, [ok |-> FALSE, articles |-> articles])
    /\ i' = i + BatchSize
    /\ UNCHANGED <<pc, filters, hashSeed, searchOk, pmids, results,
                   unique_results, metrics, data, out1, out2>>

CountWithEmails(rows) ==
    Cardinality({k \in 1..Len(rows) : rows[k].email # Sentinel})

\* faulty variant: "Authors with Emails" always shows the total
MetricsTotalOnly(raw, unique, only_with_emails) ==
    [shown |-> TRUE,
     total |-> Len(unique),
     removed |-> Len(raw) - Len(unique),
     with_emails |-> Len(unique)]

\* the three st.metric calls
Metrics(raw, unique, only_with_emails) ==
    [shown |-> TRUE,
     total |-> Len(unique),
     removed |-> Len(raw) - Len(unique),
     with_emails |-> IF only_with_emails THEN Len(unique)
                     ELSE CountWithEmails(unique)]

\* fetch_article_details returns rows: deduplicate and show the metrics
ReportResults ==
    /\ pc = "fetch"
    /\ i >= Len(pmids)
    /\ results # <<>>
    /\ unique_results' = remove_duplicates(results)
    /\ metrics' = Metrics(results, unique_results', filters.only_with_emails)
    /\ pc' = "done"
    /\ UNCHANGED <<filters, hashSeed, searchOk, pmids, i, results, responses,
                   messages, data, out1, out2>>

\* fetch_article_details returns no row
ReportNoResults ==
    /\ pc = "fetch"
    /\ i >= Len(pmids)
    /\ results = <<>>
    /\ messages' = Append(messages, NoResultsMsg)
    /\ pc' = "done"
    /\ UNCHANGED <<filters, hashSeed, searchOk, pmids, i, results, responses,
                   unique_results, metrics, data, out1, out2>>

Next ==
    \/ \E n \in {0, 1, BatchSize, BatchSize + 1} : SearchReturns(n)
    \/ SearchRaises
    \/ \E articles \in Payloads : FetchBatch(articles)
    \/ \E articles \in BrokenPayloads : FetchBatchRaises(articles)
    \/ ReportResults
    \/ ReportNoResults

Spec == Init /\ [][Next]_vars

-----------------------------------------------------------------------------
(* remove_duplicates applied to a row list, and again to its own output *)

InitDedup ==
    /\ pc = "dedup"
    /\ filters = CHOOSE f \in FilterConfigs : TRUE
    /\ hashSeed = 0
    /\ Idle
    /\ data \in RowSeqs
    /\ out1 = <<>>
    /\ out2 = <<>>

DedupOnce ==
    /\ pc = "dedup"
    /\ out1' = remove_duplicates(data)
    /\ pc' = "dedup1"
    /\ UNCHANGED <<filters, hashSeed, searchOk, pmids, i, results, responses,
                   messages, unique_results, metrics, data, out2>>

DedupTwice ==
    /\ pc = "dedup1"
    /\ out2' = remove_duplicates(out1)
    /\ pc' = "dedup2"
    /\ UNCHANGED <<filters, hashSeed, searchOk, pmids, i, results, responses,
                   messages, unique_results, metrics, data, out1>>

NextDedup == DedupOnce \/ DedupTwice

SpecDedup == InitDedup /\ [][NextDedup]_vars

-----------------------------------------------------------------------------
(* The body of the article loop (app.py:155-236) applied to one record *)

InitArticle ==
    /\ pc = "article"
    /\ filters \in FilterConfigs
    /\ hashSeed \in {0, 1}
    /\ Idle
    /\ data = <<>>
    /\ out1 = <<>>
    /\ out2 = <<>>

ProcessArticle(a) ==
    /\ pc = "article"
    /\ results' = results \o ArticleRows(Articles[a], filters, hashSeed)
    /\ responses' = Append(responses, [ok |-> TRUE, articles |-> <<a>>])
    /\ pc' = "article_done"
    /\ UNCHANGED <<filters, hashSeed, searchOk, pmids, i, messages,
                   unique_results, metrics, data, out1, out2>>

NextArticle == \E a \in ArticleIds : ProcessArticle(a)

SpecArticle == InitArticle /\ [][NextArticle]_vars

-----------------------------------------------------------------------------
(* What the claims speak about *)

\* the answers that parsed, by batch number
OkBatches == {b \in 1..Len(responses) : responses[b].ok}
FailedBatches == {b \in 1..Len(responses) : ~responses[b].ok}

\* the records of the answer the loop has just processed
ProcessedArticles ==
    IF /\ pc \in {"fetch", "article_done"}
       /\ responses # <<>>
       /\ responses[Len(responses)].ok
    THEN Range(Records(responses[Len(responses)].articles))
    ELSE {}

AuthorsOf(article) == Range(article.authors)

InFilter(text, sub) == sub = <<>> \/ Contains(Lower(text), Lower(sub))

BlankLastName(author) ==
    ~author.LastName.some \/ Strip(author.LastName.text) = <<>>

\* the author passes the known-author and author-name filters
Surviving(author) ==
    /\ ~(filters.only_known_authors /\ BlankLastName(author))
    /\ InFilter(AuthorName(author), filters.author_filter)

EmailsIn(rows) == {rows[k].email : k \in 1..Len(rows)}

-----------------------------------------------------------------------------
C2_RowsNonEmpty ==
    \A k \in 1..Len(results) :
        /\ results[k].author # <<>>
        /\ results[k].email # <<>>

\* C3: an author whose last name is absent or blank produces no row when
\* only_known_authors is true, and only rows whose author field is
\* "Unknown Author" when it is false.
C3_UnknownAuthor ==
    \A article \in ProcessedArticles : \A author \in AuthorsOf(article) :
        BlankLastName(author) =>
            LET rows == AuthorRows(Title(article), author, ArticleEmails(article),
                                   filters, hashSeed)
            IN  IF filters.only_known_authors
                THEN rows = <<>>
                ELSE \A k \in 1..Len(rows) : rows[k].author = UnknownAuthor

\* C4: the resolved email set of an author is its own set when that is
\* non-empty, and the article-level set otherwise; so every surviving author
\* of an article without own affiliation text has, in results, one row per
\* article-level email that passes the domain filter.
C4_Fallback ==
    \A article \in ProcessedArticles :
        LET emails == ArticleEmails(article)
        IN  \A author \in AuthorsOf(article) :
              /\ ResolvedEmails(author, emails) =
                    IF OwnEmails(author) # {} THEN OwnEmails(author) ELSE emails
              /\ (/\ RecordPasses(article, filters)
                  /\ Surviving(author)
                  /\ ~Truthy(AuthorAff(author))) =>
                    \A e \in emails :
                        InFilter(e, filters.email_domain_filter) =>
                            Row(Title(article), AuthorName(author), e)
                                \in Range(results)

\* two authors without own affiliation text each have their row for the
\* same article-level email, with only_with_emails true
C4_Witness ==
    /\ filters.only_with_emails
    /\ \E article \in ProcessedArticles :
        \E a1 \in AuthorsOf(article), a2 \in AuthorsOf(article) :
            /\ AuthorName(a1) # AuthorName(a2)
            /\ ~Truthy(AuthorAff(a1)) /\ ~Truthy(AuthorAff(a2))
            /\ ~BlankLastName(a1) /\ ~BlankLastName(a2)
            /\ \E e \in ArticleEmails(article) :
                  /\ Row(Title(article), AuthorName(a1), e) \in Range(results)
                  /\ Row(Title(article), AuthorName(a2), e) \in Range(results)

-----------------------------------------------------------------------------
(* The batch loop *)

\* ArticleRows of every record of Articles, tabulated
ArticleRowsOf ==
    [a \in ArticleIds, f \in FilterConfigs, seed \in {0, 1} |->
        ArticleRows(Articles[a], f, seed)]

\* the rows of the records of one answer
RowsOfAnswer(b) ==
    Flatten([k \in 1..Len(responses[b].articles) |->
               ArticleRowsOf[responses[b].articles[k], filters, hashSeed]])

\* the rows of the answers that parsed, in batch order
RowsOfOkBatches ==
    Flatten([b \in 1..Len(responses) |->
               IF responses[b].ok THEN RowsOfAnswer(b) ELSE <<>>])

WarnedBatches ==
    {messages[k].n : k \in {m \in 1..Len(messages) :
                              messages[m].text = "Error processing batch"}}

Returned == pc = "done" /\ pmids # <<>>

\* C6: a batch whose retrieval or parsing fails gets a warning and
\* contributes no rows, and every other batch is still processed: what
\* fetch_article_details returns is exactly the rows of the non-failing
\* batches in batch order, every batch having been attempted; the loop
\* reaches its end whatever batches fail: each pass, failing or not, moves
\* it one batch on, and it leaves only by returning.
C6_BatchFailure ==
    /\ pc \in {"search", "fetch", "done"}
    /\ pc = "fetch" =>
          /\ i = BatchSize * Len(responses)
          /\ Len(responses) <= total_batches(pmids)
    /\ Returned =>
          /\ Len(responses) = total_batches(pmids)
          /\ WarnedBatches = FailedBatches
          /\ results = RowsOfOkBatches

\* the first of two batches failed and the second contributed its rows
C6_Witness ==
    /\ Returned
    /\ Len(responses) = 2
    /\ ~responses[1].ok
    /\ responses[2].ok
    /\ results # <<>>

\* C7 as claimed: every well-formed record that was delivered, also one
\* delivered in the answer that held a malformed record, has its rows in
\* results.
C7_EveryWellFormedRecord ==
    Returned =>
        \A b \in 1..Len(responses) :
            Range(RowsOfAnswer(b)) \subseteq Range(results)

\* C7 amended: a malformed record makes its whole batch fail: the batch is
\* skipped with a warning and the well-formed records delivered with it
\* add no row, while every well-formed record of an answer that parses has
\* its rows in results and the loop goes on to the last batch.
C7_MalformedSkipsBatch ==
    Returned =>
        /\ Len(responses) = total_batches(pmids)
        /\ \A b \in FailedBatches : BatchWarning(b) \in Range(messages)
        /\ Range(results) = UNION {Range(RowsOfAnswer(b)) : b \in OkBatches}
        /\ Len(results) <= Len(RowsOfOkBatches)

\* an answer with a malformed record and a well-formed one that would have
\* rows is skipped, and the next batch contributes
C7_Witness ==
    /\ Returned
    /\ Len(responses) = 2
    /\ ~responses[1].ok
    /\ responses[1].articles # <<>>
    /\ RowsOfAnswer(1) # <<>>
    /\ Range(RowsOfAnswer(1)) \cap Range(results) = {}
    /\ responses[2].ok
    /\ results # <<>>
    /\ BatchWarning(1) \in Range(messages)

-----------------------------------------------------------------------------
(* The status of a run *)

FinalStatus == messages[Len(messages)]

RetrievalFailed == ~searchOk \/ FailedBatches # {}

\* no identifier, or no row, without any failure
MerelyEmpty ==
    /\ ~RetrievalFailed
    /\ pmids = <<>> \/ results = <<>>

\* C8: an empty result is not reported as an error, and the final status
\* of a run with a retrieval failure is never the "no results" status of a
\* run that merely had no matches.
C8_DistinctStatus ==
    pc = "done" =>
        /\ MerelyEmpty => FinalStatus.level # "error"
        /\ RetrievalFailed => FinalStatus \notin {NoArticlesMsg, NoResultsMsg}

\* C9: the summary counts are exact: "Duplicates Removed" is the length of
\* the raw accumulator minus that of the deduplicated list, and "Authors
\* with Emails" is the number of deduplicated rows whose email is not "No
\* email found", also when only_with_emails is true and the total is shown.
C9_Counts ==
    metrics.shown =>
        /\ metrics.total = Len(unique_results)
        /\ metrics.removed = Len(results) - Len(unique_results)
        /\ metrics.with_emails =
              Cardinality({k \in 1..Len(unique_results) :
                             unique_results[k].email # Sentinel})

\* duplicates were removed and some deduplicated row has no email
C9_Witness ==
    /\ metrics.shown
    /\ metrics.removed > 0
    /\ metrics.with_emails < metrics.total

-----------------------------------------------------------------------------
(* remove_duplicates *)

\* title, author and email, each trimmed and lowercased
NormalizedKey(row) ==
    <<Lower(Strip(row.title)), Lower(Strip(row.author)), Lower(Strip(row.email))>>

\* the positions of data that carry their normalized key for the first time
FirstOccurrences ==
    {k \in 1..Len(data) :
        \A j \in 1..(k - 1) : NormalizedKey(data[j]) # NormalizedKey(data[k])}

\* C5: remove_duplicates returns the subsequence of its input made of the
\* first row of every normalized key: no two rows of the output have the
\* same normalized key and every normalized key of the input occurs once.
C5_Dedup ==
    pc \in {"dedup1", "dedup2"} =>
        /\ Len(out1) = Cardinality(FirstOccurrences)
        /\ \A m \in 1..Len(out1) :
              out1[m] = data[CHOOSE k \in FirstOccurrences :
                               Cardinality({j \in FirstOccurrences : j <= k}) = m]
        /\ \A m, n \in 1..Len(out1) :
              NormalizedKey(out1[m]) = NormalizedKey(out1[n]) => m = n
        /\ {NormalizedKey(out1[m]) : m \in 1..Len(out1)}
              = {NormalizedKey(data[k]) : k \in 1..Len(data)}

\* rows that differ only in case and outer whitespace collapsed, and a row
\* with another key was kept
C5_Witness ==
    /\ pc = "dedup1"
    /\ Len(data) = 3
    /\ Len(out1) = 2
    /\ data[1] # data[2]
    /\ NormalizedKey(data[1]) = NormalizedKey(data[2])

\* C10: remove_duplicates applied to its own output returns the same rows
\* in the same order, removing none.
C10_Idempotent ==
    pc = "dedup2" =>
        /\ out2 = out1
        /\ Len(out1) - Len(out2) = 0

\* the first application removed a row, the second none
C10_Witness ==
    /\ pc = "dedup2"
    /\ Len(out1) < Len(data)
    /\ Len(out1) >= 2
    /\ out2 = out1

====
